---- MODULE Spec2Model ----
(***************************************************************************)
(* Model of the users REST API of yduan004/helloAPI (Django REST           *)
(* framework): the `users` table (users/models.py), UserSerializer         *)
(* (users/serializers.py) and UserViewSet (users/views.py).                *)
(*                                                                         *)
(* Strings are sequences of one-character strings, so that str.lower() is  *)
(* a computation.  Python's None is the one-element sequence None, whose   *)
(* element is not a character.                                             *)
(*                                                                         *)
(* Every handler is two phases: the reads it performs (get_object and      *)
(* serializer.is_valid) and the write it performs (save / delete).  Spec   *)
(* runs both phases of a request in one step (one request at a time);      *)
(* SpecConc lets the phases of two requests interleave, each SQL statement *)
(* group being atomic.  In both, the URLs of item requests carry no query  *)
(* string; the list request carries the is_active and search parameters.   *)
(* SpecQuery sends the item requests with a query string.  SpecNames runs  *)
(* the requests that answer full_name on a record with every combination   *)
(* of names.                                                               *)
(***************************************************************************)
EXTENDS Integers, Sequences, FiniteSets, TLC

\* ---------------------------------------------------------------- bounds
\* number of rows the id sequence may hand out
MaxUsers == 2
\* number of successful writes (each takes a fresh timestamp)
MaxClock == 3

\* ------------------------------------------------------- program constants
\* serializers.py:77  'min_length': 3
UsernameMinLength == 3
\* serializers.py:78  'max_length': 150
UsernameMaxLength == 150

\* views.py:205  status=status.HTTP_201_CREATED
HTTP_201_CREATED == 201
\* views.py:353  status=status.HTTP_204_NO_CONTENT
HTTP_204_NO_CONTENT == 204

\* ---------------------------------------------------------------- strings
None == <<"<None>">>

UpperCase ==
    <<"A", "B", "C", "D", "E", "F", "G", "H", "I", "J", "K", "L", "M",
       "N", "O", "P", "Q", "R", "S", "T", "U", "V", "W", "X", "Y", "Z">>
LowerCase ==
    <<"a", "b", "c", "d", "e", "f", "g", "h", "i", "j", "k", "l", "m",
       "n", "o", "p", "q", "r", "s", "t", "u", "v", "w", "x", "y", "z">>

\* the lower-case form of one character
LowerChar(c) ==
    IF \E k \in DOMAIN UpperCase : UpperCase[k] = c
    THEN LowerCase[CHOOSE k \in DOMAIN UpperCase : UpperCase[k] = c]
    ELSE c

\* str.lower()
Lower(s) == [i \in 1..Len(s) |-> LowerChar(s[i])]

\* Python truthiness of an optional string: None and "" are false
Truthy(s) == s # None /\ s # <<>>

\* ------------------------------------------------------------ the inputs
Ann == <<"a", "n", "n">>
Bob == <<"B", "o", "b">>
Al  == <<"a", "l">>

AnnMail      == <<"a", "@", "x">>
AnnMailUpper == <<"A", "@", "X">>
AnnMailMixed == <<"A", "@", "x">>
BobMail      == <<"b", "@", "x">>

WritableFields == {"username", "email", "first_name", "last_name", "is_active"}

\* request bodies: a payload is a function from the keys it carries to values
Payloads ==
    { [username |-> Ann, email |-> AnnMailMixed],
      [username |-> Bob, email |-> BobMail, is_active |-> FALSE],
      [username |-> Bob, email |-> AnnMailUpper],
      [username |-> Ann, email |-> BobMail, first_name |-> <<"A">>,
       last_name |-> <<"L">>],
      [username |-> Al, email |-> <<>>],
      [username |-> Bob],
      [id |-> 7, username |-> Bob],
      [email |-> AnnMailUpper],
      [is_active |-> FALSE],
      <<>> }

\* query strings of a request: None when the parameter is absent
NoParams == [is_active |-> None, search |-> None]

QueryParams ==
    { NoParams,
      [is_active |-> <<"Y", "e", "s">>, search |-> None],
      [is_active |-> <<"n", "o">>, search |-> None],
      [is_active |-> None, search |-> AnnMail] }

\* the ids a request may address: an id not yet handed out is not found
Ids == 1..MaxUsers

\* ------------------------------------------------------------------ state
VARIABLES
    table,      \* the users table: id -> row
    nextId,     \* the AutoField sequence of users.id
    clock,      \* the last timestamp timezone.now() returned to a write
    last,       \* the last completed request and its response
    deleted,    \* history: ids whose DELETE returned 204
    repeated,   \* history: the last request repeated the one before it
    inflight    \* SpecConc: process -> the request it is between phases of

vars == <<table, nextId, clock, last, deleted, repeated, inflight>>

\* ------------------------------------------------- models.py: class User
\* the instance a serializer is bound to when it creates: self.instance is None
NoInstance == [id |-> 0]

\* User.get_full_name
get_full_name(self) ==
    IF Truthy(self.first_name) /\ Truthy(self.last_name)
    THEN self.first_name \o <<" ">> \o self.last_name
    ELSE IF Truthy(self.first_name)
         THEN self.first_name
         ELSE self.username

\* mutant: the email column loses its unique constraint
UniqueViolationUsernameOnly(tbl, row) ==
    \E j \in DOMAIN tbl \ {row.id} : tbl[j].username = row.username

\* the unique=True columns of the table: the datastore compares exactly
UniqueViolation(tbl, row) ==
    \E j \in DOMAIN tbl \ {row.id} :
        \/ tbl[j].username = row.username
        \/ tbl[j].email = row.email

\* User.save, first half: "if self.email: self.email = self.email.lower()"
NormalizeEmail(self) ==
    IF Truthy(self.email) THEN [self EXCEPT !.email = Lower(@)] ELSE self

\* mutant: the refused row is written all the same
save_no_rollback(self, tbl, seq, clk) ==
    LET now == clk + 1
        norm == NormalizeEmail(self)
        newId == IF norm.id = 0 THEN seq ELSE norm.id
        row == IF norm.id \in DOMAIN tbl
               THEN [norm EXCEPT !.updated_at = now]
               ELSE [norm EXCEPT !.id = newId, !.created_at = now,
                                 !.updated_at = now]
    IN  [ok |-> ~UniqueViolation(tbl, row),
         row |-> row,
         table |-> [i \in DOMAIN tbl \cup {row.id} |->
                       IF i = row.id THEN row ELSE tbl[i]],
         nextId |-> IF norm.id = 0 THEN seq + 1 ELSE seq,
         clock |-> now]

\* mutant: an INSERT takes the lowest id no stored row holds
save_reuse_id(self, tbl, seq, clk) ==
    LET now == clk + 1
        norm == NormalizeEmail(self)
        free == CHOOSE k \in 1..(Cardinality(DOMAIN tbl) + 1) :
                    /\ k \notin DOMAIN tbl
                    /\ \A l \in 1..(k - 1) : l \in DOMAIN tbl
        row == IF norm.id \in DOMAIN tbl
               THEN [norm EXCEPT !.updated_at = now]
               ELSE [norm EXCEPT !.id = free, !.created_at = now,
                                 !.updated_at = now]
    IN  IF UniqueViolation(tbl, row)
        THEN [ok |-> FALSE, row |-> self, table |-> tbl,
              nextId |-> IF norm.id = 0 THEN seq + 1 ELSE seq, clock |-> clk]
        ELSE [ok |-> TRUE, row |-> row,
              table |-> [i \in DOMAIN tbl \cup {row.id} |->
                            IF i = row.id THEN row ELSE tbl[i]],
              nextId |-> IF norm.id = 0 THEN seq + 1 ELSE seq, clock |-> now]

\* User.save, second half: super().save().  A row whose primary key is in
\* the table is UPDATEd (all columns, updated_at refreshed); otherwise it is
\* INSERTed (created_at and updated_at set; the id drawn from the sequence
\* unless the instance carries one).  A unique violation raises
\* IntegrityError and writes nothing; the sequence value stays consumed.
\* Result: [ok, row, table, nextId, clock].
save(self, tbl, seq, clk) ==
    LET now == clk + 1
        norm == NormalizeEmail(self)
        isUpdate == norm.id \in DOMAIN tbl
        newId == IF norm.id = 0 THEN seq ELSE norm.id
        seq2 == IF norm.id = 0 THEN seq + 1 ELSE seq
        row == IF isUpdate
               THEN [norm EXCEPT !.updated_at = now]
               ELSE [norm EXCEPT !.id = newId, !.created_at = now,
                                 !.updated_at = now]
    IN  IF UniqueViolation(tbl, row)
        THEN [ok |-> FALSE, row |-> self, table |-> tbl,
              nextId |-> seq2, clock |-> clk]
        ELSE [ok |-> TRUE, row |-> row,
              table |-> [i \in DOMAIN tbl \cup {row.id} |->
                            IF i = row.id THEN row ELSE tbl[i]],
              nextId |-> seq2, clock |-> now]

\* instance.delete(): DELETE ... WHERE id = instance.id
delete(self, tbl) == [i \in DOMAIN tbl \ {self.id} |-> tbl[i]]

\* mutant: last_name is not passed on to the row
NewUser_no_last_name(data) ==
    [id         |-> 0,
     username   |-> data.username,
     email      |-> data.email,
     first_name |-> IF "first_name" \in DOMAIN data THEN data.first_name ELSE None,
     last_name  |-> None,
     is_active  |-> IF "is_active" \in DOMAIN data THEN data.is_active ELSE TRUE,
     created_at |-> 0,
     updated_at |-> 0]

\* User(**validated_data): absent columns take the field defaults
\* (first_name/last_name null, is_active default=True)
NewUser(data) ==
    [id         |-> 0,
     username   |-> data.username,
     email      |-> data.email,
     first_name |-> IF "first_name" \in DOMAIN data THEN data.first_name ELSE None,
     last_name  |-> IF "last_name" \in DOMAIN data THEN data.last_name ELSE None,
     is_active  |-> IF "is_active" \in DOMAIN data THEN data.is_active ELSE TRUE,
     created_at |-> 0,
     updated_at |-> 0]

\* --------------------------------------- serializers.py: UserSerializer
\* mutant: the update branch forgets exclude(id=self.instance.id)
validate_email_no_exclude(tbl, instance, value) ==
    [error |-> IF \E j \in DOMAIN tbl : tbl[j].email = Lower(value)
               THEN {"A user with this email already exists."} ELSE {},
     value |-> Lower(value)]

\* mutant: the existence check compares the value as submitted
validate_email_exact(tbl, instance, value) ==
    LET taken == IF instance = NoInstance
                 THEN \E j \in DOMAIN tbl : tbl[j].email = value
                 ELSE \E j \in DOMAIN tbl \ {instance.id} :
                          tbl[j].email = value
    IN  [error |-> IF taken THEN {"A user with this email already exists."}
                   ELSE {},
         value |-> Lower(value)]

\* UserSerializer.validate_email: [error, value]
validate_email(tbl, instance, value) ==
    LET v == Lower(value)
        taken == IF instance = NoInstance
                 THEN \E j \in DOMAIN tbl : tbl[j].email = v
                 ELSE \E j \in DOMAIN tbl \ {instance.id} : tbl[j].email = v
    IN  [error |-> IF taken THEN {"A user with this email already exists."}
                   ELSE {},
         value |-> v]

\* mutant: the update branch forgets exclude(id=self.instance.id)
validate_username_no_exclude(tbl, instance, value) ==
    [error |-> IF \E j \in DOMAIN tbl : tbl[j].username = value
               THEN {"A user with this username already exists."} ELSE {},
     value |-> value]

\* UserSerializer.validate_username: [error, value]
validate_username(tbl, instance, value) ==
    LET taken == IF instance = NoInstance
                 THEN \E j \in DOMAIN tbl : tbl[j].username = value
                 ELSE \E j \in DOMAIN tbl \ {instance.id} :
                          tbl[j].username = value
    IN  [error |-> IF taken THEN {"A user with this username already exists."}
                   ELSE {},
         value |-> value]

\* mutant: is_active is required too
RequiredFieldsWithActive == {"username", "email", "is_active"}

\* Meta.extra_kwargs 'required': True
RequiredFields == {"username", "email"}

\* the field's own checks of Meta.extra_kwargs (allow_blank, min_length,
\* max_length), which run before validate_<field>
FieldErrors(f, value) ==
    CASE f = "email" ->
            IF value = <<>> THEN {"This field may not be blank."} ELSE {}
      [] f = "username" ->
            IF value = <<>> THEN {"This field may not be blank."}
            ELSE IF Len(value) < UsernameMinLength
                 THEN {"Ensure this field has at least 3 characters."}
                 ELSE IF Len(value) > UsernameMaxLength
                      THEN {"Ensure this field has no more than 150 characters."}
                      ELSE {}
      [] OTHER -> {}

\* the messages one field of the payload collects during is_valid
ErrorsOf(tbl, instance, data, partial, f) ==
    IF f \notin DOMAIN data
    THEN IF ~partial /\ f \in RequiredFields
         THEN {"This field is required."} ELSE {}
    ELSE IF FieldErrors(f, data[f]) # {}
         THEN FieldErrors(f, data[f])
         ELSE CASE f = "email" -> validate_email(tbl, instance, data[f]).error
                [] f = "username" ->
                       validate_username(tbl, instance, data[f]).error
                [] OTHER -> {}

\* serializer.is_valid: [errors, validated_data]; errors maps each failing
\* field to its messages, validated_data is what validate() returns
is_valid(tbl, instance, data, partial) ==
    LET bad == {f \in WritableFields :
                   ErrorsOf(tbl, instance, data, partial, f) # {}}
    IN  [errors |-> [f \in bad |-> ErrorsOf(tbl, instance, data, partial, f)],
         validated_data |->
             [f \in DOMAIN data \cap WritableFields |->
                 IF f = "email" THEN validate_email(tbl, instance, data[f]).value
                 ELSE data[f]]]

\* dict.get(key, default)
Get(d, key, default) == IF key \in DOMAIN d THEN d[key] ELSE default

\* mutant: an absent is_active falls back to the model default
update_default_active(instance, validated_data) ==
    [instance EXCEPT
        !.username   = IF "username" \in DOMAIN validated_data
                       THEN validated_data.username ELSE @,
        !.email      = IF "email" \in DOMAIN validated_data
                       THEN validated_data.email ELSE @,
        !.first_name = IF "first_name" \in DOMAIN validated_data
                       THEN validated_data.first_name ELSE @,
        !.last_name  = IF "last_name" \in DOMAIN validated_data
                       THEN validated_data.last_name ELSE @,
        !.is_active  = IF "is_active" \in DOMAIN validated_data
                       THEN validated_data.is_active ELSE TRUE]

\* UserSerializer.update, the assignments before instance.save()
update(instance, validated_data) ==
    [instance EXCEPT
        !.username   = Get(validated_data, "username", @),
        !.email      = Get(validated_data, "email", @),
        !.first_name = Get(validated_data, "first_name", @),
        !.last_name  = Get(validated_data, "last_name", @),
        !.is_active  = Get(validated_data, "is_active", @)]

\* UserSerializer.data: Meta.fields of the instance
to_representation(obj) ==
    [id         |-> obj.id,
     username   |-> obj.username,
     email      |-> obj.email,
     first_name |-> obj.first_name,
     last_name  |-> obj.last_name,
     full_name  |-> get_full_name(obj),
     is_active  |-> obj.is_active,
     created_at |-> obj.created_at,
     updated_at |-> obj.updated_at]

\* UserListSerializer.data
to_list_representation(obj) ==
    [id         |-> obj.id,
     username   |-> obj.username,
     email      |-> obj.email,
     is_active  |-> obj.is_active,
     created_at |-> obj.created_at]

\* --------------------------------------------- views.py: class UserViewSet
\* order_by('id'): the ids of S in ascending order
OrderById(S) ==
    CHOOSE q \in [1..Cardinality(S) -> S] :
        /\ \A i \in S : \E k \in 1..Cardinality(S) : q[k] = i
        /\ \A k \in 1..Cardinality(S) : \A l \in 1..Cardinality(S) :
              k < l => q[k] < q[l]

\* Meta.ordering = ['-created_at']: the ids of S, newest row first
OrderByNewest(tbl, S) ==
    CHOOSE q \in [1..Cardinality(S) -> S] :
        /\ \A i \in S : \E k \in 1..Cardinality(S) : q[k] = i
        /\ \A k \in 1..Cardinality(S) : \A l \in 1..Cardinality(S) :
              k < l => tbl[q[k]].created_at > tbl[q[l]].created_at

\* "is_active.lower() in ['true', '1', 'yes']"
is_active_bool(is_active) ==
    Lower(is_active) \in {<<"t", "r", "u", "e">>, <<"1">>, <<"y", "e", "s">>}

\* UserViewSet.get_queryset: [error, ids].  The model has no field `name`,
\* so filter(name__icontains=search) raises FieldError whenever the search
\* parameter is non-empty.
get_queryset(tbl, qp) ==
    LET queryset == IF qp.is_active # None
                    THEN {i \in DOMAIN tbl :
                             tbl[i].is_active = is_active_bool(qp.is_active)}
                    ELSE DOMAIN tbl
    IN  IF Truthy(qp.search)
        THEN [error |-> TRUE, ids |-> <<>>]
        ELSE [error |-> FALSE,
              ids |-> OrderById(queryset)]

\* GenericAPIView.get_object over get_queryset: [status, instance]
get_object(tbl, qp, pk) ==
    LET qs == get_queryset(tbl, qp)
    IN  IF qs.error THEN [status |-> 500, instance |-> NoInstance]
        ELSE IF \E k \in 1..Len(qs.ids) : qs.ids[k] = pk
             THEN [status |-> 200, instance |-> tbl[pk]]
             ELSE [status |-> 404, instance |-> NoInstance]

NoErrors == <<>>
NoBody == <<>>
NotFound == [detail |-> "Not found."]

ItemOps == {"retrieve", "update", "partial_update", "destroy",
            "activate", "deactivate"}
WriteOps == {"create", "update", "partial_update", "destroy",
             "activate", "deactivate"}

\* The reads of a handler, up to the statement that writes:
\* get_object() and serializer.is_valid(raise_exception=True).
\* status 0: the handler goes on to its write with instance and data.
Begin(tbl, req) ==
    LET base == [op |-> req.op, id |-> req.id, qp |-> req.qp,
                 payload |-> req.payload, status |-> 0, errors |-> NoErrors,
                 instance |-> NoInstance, data |-> <<>>]
        obj == get_object(tbl, req.qp, req.id)
        partial == req.op = "partial_update"
    IN  CASE req.op = "create" ->
               LET v == is_valid(tbl, NoInstance, req.payload, FALSE)
               IN  IF v.errors # NoErrors
                   THEN [base EXCEPT !.status = 400, !.errors = v.errors]
                   ELSE [base EXCEPT !.data = v.validated_data]
          [] req.op \in {"update", "partial_update"} ->
               IF obj.status # 200
               THEN [base EXCEPT !.status = obj.status]
               ELSE LET v == is_valid(tbl, obj.instance, req.payload, partial)
                    IN  IF v.errors # NoErrors
                        THEN [base EXCEPT !.status = 400, !.errors = v.errors,
                                          !.instance = obj.instance]
                        ELSE [base EXCEPT !.instance = obj.instance,
                                          !.data = v.validated_data]
          [] OTHER ->
               IF obj.status # 200
               THEN [base EXCEPT !.status = obj.status]
               ELSE [base EXCEPT !.instance = obj.instance]

\* the response of a handler that wrote nothing
Failed(ctx, tbl, seq, clk) ==
    [status |-> ctx.status, errors |-> ctx.errors,
     body |-> IF ctx.status = 404 THEN NotFound ELSE NoBody,
     table |-> tbl, nextId |-> seq, clock |-> clk]

\* mutant: the storage conflict is answered as a validation error
Saved_conflict_400(s, okStatus) ==
    [status |-> IF s.ok THEN okStatus ELSE 400,
     errors |-> IF s.ok THEN NoErrors
                ELSE [email |-> {"A user with this email already exists."}],
     body |-> IF s.ok THEN to_representation(s.row) ELSE NoBody,
     table |-> s.table, nextId |-> s.nextId, clock |-> s.clock]

\* the response after instance.save() / objects.create(): IntegrityError is
\* caught nowhere, so it ends the request as a server error
Saved(s, okStatus) ==
    [status |-> IF s.ok THEN okStatus ELSE 500, errors |-> NoErrors,
     body |-> IF s.ok THEN to_representation(s.row) ELSE NoBody,
     table |-> s.table, nextId |-> s.nextId, clock |-> s.clock]

\* UserSerializer.create via perform_create
create(ctx, tbl, seq, clk) ==
    Saved(save(NewUser(ctx.data), tbl, seq, clk), HTTP_201_CREATED)

\* UserSerializer.update via perform_update
perform_update(ctx, tbl, seq, clk) ==
    Saved(save(update(ctx.instance, ctx.data), tbl, seq, clk), 200)

\* mutant: the soft delete of the comment in perform_destroy
destroy_soft(ctx, tbl, seq, clk) ==
    [status |-> HTTP_204_NO_CONTENT, errors |-> NoErrors, body |-> NoBody,
     table |-> save([ctx.instance EXCEPT !.is_active = FALSE],
                    tbl, seq, clk).table,
     nextId |-> seq, clock |-> clk + 1]

\* UserViewSet.destroy / perform_destroy
destroy(ctx, tbl, seq, clk) ==
    [status |-> HTTP_204_NO_CONTENT, errors |-> NoErrors, body |-> NoBody,
     table |-> delete(ctx.instance, tbl), nextId |-> seq, clock |-> clk]

\* mutant: activate flips the flag
activate_toggle(ctx, tbl, seq, clk) ==
    Saved(save([ctx.instance EXCEPT !.is_active = ~@], tbl, seq, clk), 200)

\* UserViewSet.activate, after get_object
activate(ctx, tbl, seq, clk) ==
    Saved(save([ctx.instance EXCEPT !.is_active = TRUE], tbl, seq, clk), 200)

\* UserViewSet.deactivate, after get_object
deactivate(ctx, tbl, seq, clk) ==
    Saved(save([ctx.instance EXCEPT !.is_active = FALSE], tbl, seq, clk), 200)

\* UserViewSet.retrieve, after get_object
retrieve(ctx, tbl, seq, clk) ==
    [status |-> 200, errors |-> NoErrors,
     body |-> to_representation(ctx.instance),
     table |-> tbl, nextId |-> seq, clock |-> clk]

\* The rest of a handler: its write and its response.
\* Result: [status, errors, body, table, nextId, clock].
Finish(ctx, tbl, seq, clk) ==
    IF ctx.status # 0 THEN Failed(ctx, tbl, seq, clk)
    ELSE CASE ctx.op = "create"         -> create(ctx, tbl, seq, clk)
           [] ctx.op = "update"         -> perform_update(ctx, tbl, seq, clk)
           [] ctx.op = "partial_update" -> perform_update(ctx, tbl, seq, clk)
           [] ctx.op = "destroy"        -> destroy(ctx, tbl, seq, clk)
           [] ctx.op = "activate"       -> activate(ctx, tbl, seq, clk)
           [] ctx.op = "deactivate"     -> deactivate(ctx, tbl, seq, clk)
           [] OTHER                     -> retrieve(ctx, tbl, seq, clk)

\* a whole handler run without interruption
Handle(tbl, seq, clk, req) == Finish(Begin(tbl, req), tbl, seq, clk)

\* UserViewSet.list: the rows of get_queryset through UserListSerializer
list(tbl, qp) ==
    LET qs == get_queryset(tbl, qp)
    IN  IF qs.error
        THEN [status |-> 500, body |-> NoBody]
        ELSE [status |-> 200,
              body |-> [k \in 1..Len(qs.ids) |->
                           to_list_representation(tbl[qs.ids[k]])]]

\* UserViewSet.active_users: User.objects.filter(is_active=True) in the
\* Meta.ordering of the model, ['-created_at']
active_users(tbl) ==
    LET ids == OrderByNewest(tbl, {i \in DOMAIN tbl : tbl[i].is_active = TRUE})
    IN  [status |-> 200,
         body |-> [k \in 1..Len(ids) |-> to_representation(tbl[ids[k]])]]

\* ---------------------------------------------------------------- actions
Procs == {1, 2}
Idle == [op |-> "idle"]

Request(op, id, qp, payload) ==
    [op |-> op, id |-> id, qp |-> qp, payload |-> payload]

Init ==
    /\ table = <<>>
    /\ nextId = 1
    /\ clock = 0
    /\ last = [op |-> "none", id |-> 0, qp |-> NoParams, payload |-> <<>>,
               status |-> 0, errors |-> NoErrors, body |-> NoBody]
    /\ deleted = {}
    /\ repeated = FALSE
    /\ inflight = [p \in Procs |-> Idle]

\* the response r of request req leaves the server (the counters stay
\* within the bounds)
Respond(req, r) ==
    /\ r.clock <= MaxClock
    /\ r.nextId <= MaxUsers + 1
    /\ table' = r.table
    /\ nextId' = r.nextId
    /\ clock' = r.clock
    /\ last' = [op |-> req.op, id |-> req.id, qp |-> req.qp,
                payload |-> req.payload, status |-> r.status,
                errors |-> r.errors, body |-> r.body]
    /\ deleted' = IF req.op = "destroy" /\ r.status = HTTP_204_NO_CONTENT
                  THEN deleted \cup {req.id} ELSE deleted
    /\ repeated' = (/\ req.op = last.op
                    /\ req.id = last.id
                    /\ req.qp = last.qp
                    /\ req.payload = last.payload)

\* POST /api/users/
Create ==
    \E payload \in Payloads :
        LET req == Request("create", 0, NoParams, payload)
        IN  /\ Respond(req, Handle(table, nextId, clock, req))
            /\ UNCHANGED inflight

\* PUT /api/users/{id}/
Update ==
    \E id \in Ids, payload \in Payloads :
        LET req == Request("update", id, NoParams, payload)
        IN  /\ Respond(req, Handle(table, nextId, clock, req))
            /\ UNCHANGED inflight

\* PATCH /api/users/{id}/
PartialUpdate ==
    \E id \in Ids, payload \in Payloads :
        LET req == Request("partial_update", id, NoParams, payload)
        IN  /\ Respond(req, Handle(table, nextId, clock, req))
            /\ UNCHANGED inflight

\* DELETE /api/users/{id}/
Destroy ==
    \E id \in Ids :
        LET req == Request("destroy", id, NoParams, <<>>)
        IN  /\ Respond(req, Handle(table, nextId, clock, req))
            /\ UNCHANGED inflight

\* POST /api/users/{id}/activate/
Activate ==
    \E id \in Ids :
        LET req == Request("activate", id, NoParams, <<>>)
        IN  /\ Respond(req, Handle(table, nextId, clock, req))
            /\ UNCHANGED inflight

\* POST /api/users/{id}/deactivate/
Deactivate ==
    \E id \in Ids :
        LET req == Request("deactivate", id, NoParams, <<>>)
        IN  /\ Respond(req, Handle(table, nextId, clock, req))
            /\ UNCHANGED inflight

\* GET /api/users/{id}/
Retrieve ==
    \E id \in Ids :
        LET req == Request("retrieve", id, NoParams, <<>>)
        IN  /\ Respond(req, Handle(table, nextId, clock, req))
            /\ UNCHANGED inflight

\* GET /api/users/
List ==
    \E qp \in QueryParams :
        LET r == list(table, qp)
        IN  /\ last' = [op |-> "list", id |-> 0, qp |-> qp, payload |-> <<>>,
                        status |-> r.status, errors |-> NoErrors,
                        body |-> r.body]
            /\ repeated' = (last.op = "list" /\ last.qp = qp)
        /\ UNCHANGED <<table, nextId, clock, deleted, inflight>>

\* GET /api/users/active_users/
ActiveUsers ==
    LET r == active_users(table)
    IN  /\ last' = [op |-> "active_users", id |-> 0, qp |-> NoParams,
                    payload |-> <<>>, status |-> r.status,
                    errors |-> NoErrors, body |-> r.body]
        /\ repeated' = (last.op = "active_users")
        /\ UNCHANGED <<table, nextId, clock, deleted, inflight>>

Next ==
    \/ Create
    \/ Update
    \/ PartialUpdate
    \/ Destroy
    \/ Activate
    \/ Deactivate
    \/ Retrieve
    \/ List
    \/ ActiveUsers

Spec == Init /\ [][Next]_vars

TypeOK ==
    /\ DOMAIN table \subseteq 1..MaxUsers
    /\ nextId \in 1..(MaxUsers + 1)
    /\ clock \in 0..MaxClock

\* ------------------------------------------- interleaved request handling
\* the requests that write, as sent while another request is in progress
ConcCreates ==
    { [username |-> Ann, email |-> AnnMailMixed],
      [username |-> Bob, email |-> AnnMailUpper] }

ConcPuts == { [username |-> Bob, email |-> BobMail, is_active |-> FALSE] }

ConcPatches == { [username |-> Bob], [email |-> AnnMailUpper] }

WriteRequests ==
    {Request("create", 0, NoParams, payload) : payload \in ConcCreates}
    \cup {Request("update", id, NoParams, payload) :
             id \in Ids, payload \in ConcPuts}
    \cup {Request("partial_update", id, NoParams, payload) :
             id \in Ids, payload \in ConcPatches}
    \cup {Request(op, id, NoParams, <<>>) :
             op \in {"destroy", "activate", "deactivate"}, id \in Ids}

\* the lowest idle worker takes a request and runs the handler up to its
\* write; a handler that raised (400, 404, 500) has nothing left to do but
\* respond.  It reads the table once and writes nothing, and every table is
\* also the table of a state with no request in progress (leave out the
\* requests still in progress), so such requests are taken in those states.
Start(p) ==
    \E req \in WriteRequests :
        LET ctx == Begin(table, req)
        IN  /\ inflight[p] = Idle
            /\ \A q \in Procs : q < p => inflight[q] # Idle
            /\ IF ctx.status = 0
               THEN /\ inflight' = [inflight EXCEPT ![p] = ctx]
                    /\ UNCHANGED <<table, nextId, clock, last, deleted,
                                   repeated>>
               ELSE /\ \A q \in Procs : inflight[q] = Idle
                    /\ Respond(req, Finish(ctx, table, nextId, clock))
                    /\ UNCHANGED inflight

\* the worker runs the rest of the handler and responds
Complete(p) ==
    /\ inflight[p] # Idle
    /\ Respond(inflight[p], Finish(inflight[p], table, nextId, clock))
    /\ inflight' = [inflight EXCEPT ![p] = Idle]

NextConc ==
    \/ \E p \in Procs : Start(p)
    \/ \E p \in Procs : Complete(p)

SpecConc == Init /\ [][NextConc]_vars

\* ------------------------------------------- the derived field full_name
\* the values of a name column: NULL, blank, a name
FirstNames == {None, <<>>, <<"A">>}
LastNames == {None, <<>>, <<"L">>}

\* PATCH bodies that set the names
NamePayloads ==
    [first_name : FirstNames] \cup [last_name : LastNames]
    \cup [first_name : FirstNames, last_name : LastNames]

\* one stored record, its names in every combination of the values
InitNames ==
    /\ \E f \in FirstNames, l \in LastNames :
          table = <<[id |-> 1, username |-> Ann, email |-> AnnMail,
                     first_name |-> f, last_name |-> l, is_active |-> TRUE,
                     created_at |-> 1, updated_at |-> 1]>>
    /\ nextId = 2
    /\ clock = 1
    /\ last = [op |-> "none", id |-> 0, qp |-> NoParams, payload |-> <<>>,
               status |-> 0, errors |-> NoErrors, body |-> NoBody]
    /\ deleted = {}
    /\ repeated = FALSE
    /\ inflight = [p \in Procs |-> Idle]

\* PATCH /api/users/{id}/ with a body that sets names
PatchNames ==
    \E id \in Ids, payload \in NamePayloads :
        LET req == Request("partial_update", id, NoParams, payload)
        IN  /\ Respond(req, Handle(table, nextId, clock, req))
            /\ UNCHANGED inflight

NextNames ==
    \/ PatchNames
    \/ Retrieve
    \/ ActiveUsers

SpecNames == InitNames /\ [][NextNames]_vars

\* ------------------------------------- item requests with a query string
\* POST /api/users/ with one of a few bodies
CreateFew ==
    \E payload \in ConcCreates \cup ConcPuts :
        LET req == Request("create", 0, NoParams, payload)
        IN  /\ Respond(req, Handle(table, nextId, clock, req))
            /\ UNCHANGED inflight

\* GET, PUT, PATCH, DELETE /api/users/{id}/?... and
\* POST /api/users/{id}/activate/?..., POST /api/users/{id}/deactivate/?...
ItemRequest ==
    \E op \in ItemOps, id \in Ids, qp \in QueryParams :
        \E payload \in IF op = "update" THEN ConcPuts
                        ELSE IF op = "partial_update" THEN ConcPatches
                             ELSE {<<>>} :
            LET req == Request(op, id, qp, payload)
            IN  /\ Respond(req, Handle(table, nextId, clock, req))
                /\ UNCHANGED inflight

NextQuery ==
    \/ CreateFew
    \/ ItemRequest

SpecQuery == Init /\ [][NextQuery]_vars

\* ----------------------------------------------------------------- claims
SuccessStatuses == {200, HTTP_201_CREATED, HTTP_204_NO_CONTENT}

EmailExists == {"A user with this email already exists."}
UsernameExists == {"A user with this username already exists."}

\* the values a client can set on a row
MutableValues(row) == [f \in WritableFields |-> row[f]]

\* C1: in every state reached by interleaved create, update, partial update,
\* activate, deactivate and delete requests from the empty table, no two
\* stored rows have emails equal up to letter case, and no two have the same
\* username.
C1_UniqueColumns ==
    \A i \in DOMAIN table : \A j \in DOMAIN table :
        i # j => /\ Lower(table[i].email) # Lower(table[j].email)
                 /\ table[i].username # table[j].username

\* two rows are stored and the datastore has just refused a racing write
C1_Witness ==
    /\ Cardinality(DOMAIN table) = 2
    /\ last.status = 500

\* C2: a create whose email, lowercased, equals the email of a stored row
\* fails with 400 and the error "A user with this email already exists." on
\* the email field, and stores nothing.
C2_DuplicateEmailRejected ==
    [][(/\ last'.op = "create"
        /\ "email" \in DOMAIN last'.payload
        /\ \E j \in DOMAIN table : table[j].email = Lower(last'.payload.email))
       => (/\ last'.status = 400
           /\ "email" \in DOMAIN last'.errors
           /\ last'.errors.email = EmailExists
           /\ table' = table)]_vars

\* a create was refused for an email that differs from the stored one only
\* in letter case
C2_Witness ==
    /\ last.op = "create"
    /\ last.status = 400
    /\ "email" \in DOMAIN last.payload
    /\ \E j \in DOMAIN table :
          /\ table[j].email = Lower(last.payload.email)
          /\ table[j].email # last.payload.email
    /\ "email" \in DOMAIN last.errors
    /\ last.errors.email = EmailExists

\* C3: a request that does not succeed (400, 404, storage conflict) leaves
\* the table exactly as it was; a request that succeeds has stored exactly
\* the row it reports (or, for a delete, has removed the row).
C3_AllOrNothing ==
    [][/\ last'.status \notin SuccessStatuses => table' = table
       /\ (last'.status \in {200, HTTP_201_CREATED} /\ last'.op \in WriteOps)
          => /\ last'.body.id \in DOMAIN table'
             /\ to_representation(table'[last'.body.id]) = last'.body
             /\ \A j \in DOMAIN table' \ {last'.body.id} :
                   j \in DOMAIN table /\ table'[j] = table[j]
       /\ last'.status = HTTP_204_NO_CONTENT
          => table' = [j \in DOMAIN table \ {last'.id} |-> table[j]]]_vars

\* the datastore refused the write of a create that had passed validation
C3_Witness ==
    /\ last.op = "create"
    /\ last.status = 500
    /\ \E j \in DOMAIN table : table[j].email = Lower(last.payload.email)

\* C4: a successful PATCH changes, besides updated_at, only fields its
\* payload carries: the other mutable fields, id and created_at of the row
\* keep their values and every other row is unchanged.
C4_PatchFrame ==
    [][(last'.op = "partial_update" /\ last'.status = 200)
       => (/\ DOMAIN table' = DOMAIN table
           /\ last'.id \in DOMAIN table
           /\ \A j \in DOMAIN table \ {last'.id} : table'[j] = table[j]
           /\ \A f \in WritableFields \ DOMAIN last'.payload :
                 table'[last'.id][f] = table[last'.id][f]
           /\ table'[last'.id].id = table[last'.id].id
           /\ table'[last'.id].created_at = table[last'.id].created_at)]_vars

\* a PATCH that carries some but not all mutable fields succeeded while
\* another row was stored
C4_Witness ==
    /\ last.op = "partial_update"
    /\ last.status = 200
    /\ DOMAIN last.payload # {}
    /\ DOMAIN last.payload # WritableFields
    /\ Cardinality(DOMAIN table) = 2

\* what a PUT and a PATCH of row i with body payload would answer now
Put(i, payload) ==
    Handle(table, nextId, clock, Request("update", i, NoParams, payload))
Patch(i, payload) ==
    Handle(table, nextId, clock, Request("partial_update", i, NoParams, payload))

\* C5 as stated: on every stored row and for every payload, a PUT answers
\* and stores exactly what a PATCH with the same payload does.
C5_PutEqualsPatch ==
    \A i \in DOMAIN table : \A payload \in Payloads :
        /\ Put(i, payload).status = Patch(i, payload).status
        /\ Put(i, payload).table = Patch(i, payload).table

\* C5 amended: a PUT whose payload carries username and email answers and
\* stores exactly what a PATCH with the same payload does, the omitted
\* first_name, last_name and is_active keeping their values; a PUT that
\* omits username or email fails with 400 "This field is required." on each
\* omitted one and leaves the table unchanged.
C5_PutEqualsPatchWhenRequiredPresent ==
    \A i \in DOMAIN table : \A payload \in Payloads :
        LET put == Put(i, payload)
            patch == Patch(i, payload)
        IN  IF {"username", "email"} \subseteq DOMAIN payload
            THEN /\ put.status = patch.status
                 /\ put.errors = patch.errors
                 /\ put.table = patch.table
                 /\ put.status = 200
                    => \A f \in WritableFields \ DOMAIN payload :
                          put.table[i][f] = table[i][f]
            ELSE /\ put.status = 400
                 /\ put.table = table
                 /\ \A f \in {"username", "email"} \ DOMAIN payload :
                       /\ f \in DOMAIN put.errors
                       /\ put.errors[f] = {"This field is required."}

\* a PUT without first_name, last_name and is_active succeeded on a row that
\* holds a last_name or is inactive
C5_Witness ==
    /\ last.op = "update"
    /\ last.status = 200
    /\ DOMAIN last.payload = {"username", "email"}
    /\ \/ Truthy(table[last.id].last_name)
       \/ ~table[last.id].is_active

\* C6: on PUT and PATCH of a row that was found, an email (lowercased) or a
\* username held by another row is refused with 400 and the field's error
\* and the table is unchanged, while the row's own email or username raises
\* no uniqueness error.
C6_UpdateUniquenessExcludesSelf ==
    [][(/\ last'.op \in {"update", "partial_update"}
        /\ last'.id \in DOMAIN table
        /\ last'.status \notin {404, 500})
       => (/\ ("email" \in DOMAIN last'.payload
               /\ \E j \in DOMAIN table \ {last'.id} :
                     table[j].email = Lower(last'.payload.email))
              => /\ last'.status = 400
                 /\ "email" \in DOMAIN last'.errors
                 /\ last'.errors.email = EmailExists
                 /\ table' = table
           /\ ("username" \in DOMAIN last'.payload
               /\ \E j \in DOMAIN table \ {last'.id} :
                     table[j].username = last'.payload.username)
              => /\ last'.status = 400
                 /\ "username" \in DOMAIN last'.errors
                 /\ last'.errors.username = UsernameExists
                 /\ table' = table
           /\ ("email" \in DOMAIN last'.payload
               /\ Lower(last'.payload.email) = table[last'.id].email)
              => "email" \notin DOMAIN last'.errors
           /\ ("username" \in DOMAIN last'.payload
               /\ last'.payload.username = table[last'.id].username)
              => "username" \notin DOMAIN last'.errors)]_vars

\* an update was refused for the email, in other letter case, of another row
C6_Witness ==
    /\ last.op \in {"update", "partial_update"}
    /\ last.status = 400
    /\ last.id \in DOMAIN table
    /\ "email" \in DOMAIN last.payload
    /\ \E j \in DOMAIN table \ {last.id} :
          /\ table[j].email = Lower(last.payload.email)
          /\ table[j].email # last.payload.email
    /\ "email" \in DOMAIN last.errors
    /\ last.errors.email = EmailExists

\* C7: a PATCH that repeats, on the same row, the PATCH that has just
\* succeeded also succeeds with 200 and leaves username, email, first_name,
\* last_name and is_active as the first left them; updated_at advances.
C7_PatchIdempotent ==
    [][(/\ last.op = "partial_update"
        /\ last.status = 200
        /\ last.qp = NoParams
        /\ last'.op = "partial_update"
        /\ last'.id = last.id
        /\ last'.qp = last.qp
        /\ last'.payload = last.payload)
       => (/\ last'.status = 200
           /\ last'.id \in DOMAIN table'
           /\ MutableValues(table'[last'.id]) = MutableValues(table[last.id])
           /\ table'[last'.id].updated_at > table[last.id].updated_at)]_vars

\* the same non-empty PATCH has been applied twice in a row; the second
\* answered 200
C7_Witness ==
    /\ repeated
    /\ last.op = "partial_update"
    /\ last.status = 200
    /\ last.qp = NoParams
    /\ "email" \in DOMAIN last.payload

\* C8: the retrieve that follows a successful create, on the id the create
\* returned, answers 200 with the fields of the create payload, the email
\* lowercased; every stored email is lowercase.
C8_CreateRoundTrip ==
    [][/\ (/\ last.op = "create"
           /\ last.status = HTTP_201_CREATED
           /\ last'.op = "retrieve"
           /\ last'.id = last.body.id
           /\ last'.qp = NoParams)
          => (/\ last'.status = 200
              /\ \A f \in DOMAIN last.payload \ {"email"} :
                    last'.body[f] = last.payload[f]
              /\ last'.body.email = Lower(last.payload.email)
              /\ last'.body.id = last.body.id)
       /\ \A i \in DOMAIN table' : table'[i].email = Lower(table'[i].email)]_vars

\* a create with an email not in lower case has answered 201
C8_Witness ==
    /\ last.op = "create"
    /\ last.status = HTTP_201_CREATED
    /\ last.payload.email # Lower(last.payload.email)
    /\ last.body.email = Lower(last.payload.email)

\* C9: activate (deactivate) of a stored row answers 200 and stores
\* is_active = TRUE (FALSE) whatever the value was, and the response shows
\* it; a retrieve answers the stored row; active_users answers exactly the
\* stored rows with is_active = TRUE.
C9_ActivateDeactivate ==
    [][/\ (/\ last'.op \in {"activate", "deactivate"}
           /\ last'.id \in DOMAIN table
           /\ last'.qp = NoParams)
          => (/\ last'.status = 200
              /\ last'.body.is_active = (last'.op = "activate")
              /\ last'.id \in DOMAIN table'
              /\ table'[last'.id].is_active = (last'.op = "activate"))
       /\ (last'.op = "retrieve" /\ last'.status = 200)
          => last'.body = to_representation(table[last'.id])
       /\ last'.op = "active_users"
          => /\ last'.status = 200
             /\ {last'.body[k].id : k \in 1..Len(last'.body)}
                   = {i \in DOMAIN table : table[i].is_active}
             /\ Len(last'.body)
                   = Cardinality({i \in DOMAIN table : table[i].is_active})]_vars

\* an activate has answered 200 for a row that was created inactive and
\* not written since (the create and the activate are the only two writes)
C9_Witness ==
    /\ last.op = "activate"
    /\ last.status = 200
    /\ last.body.is_active
    /\ table[last.id].is_active
    /\ table[last.id].username = Bob
    /\ table[last.id].email = BobMail
    /\ table[last.id].created_at = 1
    /\ clock = 2

\* C10: a delete of a stored row answers 204 and removes the row; from then
\* on every retrieve, update, partial update, activate, deactivate and
\* delete of that id answers 404 and the id is in no list or active_users
\* answer and never in the table again.
C10_HardDelete ==
    [][/\ (/\ last'.op = "destroy"
           /\ last'.id \in DOMAIN table
           /\ last'.qp = NoParams)
          => /\ last'.status = HTTP_204_NO_CONTENT
             /\ table' = [j \in DOMAIN table \ {last'.id} |-> table[j]]
       /\ (/\ last'.op \in ItemOps
           /\ last'.id \in deleted
           /\ last'.qp.search = None)
          => /\ last'.status = 404
             /\ table' = table
       /\ (last'.op \in {"list", "active_users"} /\ last'.status = 200)
          => \A k \in 1..Len(last'.body) : last'.body[k].id \notin deleted
       /\ deleted' \cap DOMAIN table' = {}]_vars

\* the second delete of an id has answered 404
C10_Witness ==
    /\ last.op = "destroy"
    /\ last.status = 404
    /\ last.id \in deleted
    /\ repeated

\* the ids of all records created so far: a record leaves the table only
\* through a DELETE that answered 204
EverCreated == DOMAIN table \cup deleted

\* C11: a successful create returns an id that no record stored or created
\* earlier has and that is greater than all of theirs; a successful update,
\* partial update, activate or deactivate (also with an id key in its
\* payload) answers and stores the id of the URL, and no request changes the
\* id of a stored record (a record being told by its created_at).
C11_IdsUniqueImmutable ==
    [][/\ (last'.op = "create" /\ last'.status = HTTP_201_CREATED)
          => /\ last'.body.id \notin EverCreated
             /\ \A j \in EverCreated : last'.body.id > j
             /\ last'.body.id \in DOMAIN table'
             /\ table'[last'.body.id].id = last'.body.id
       /\ (/\ last'.op \in {"update", "partial_update", "activate",
                            "deactivate"}
           /\ last'.status = 200)
          => /\ last'.body.id = last'.id
             /\ DOMAIN table' = DOMAIN table
             /\ table'[last'.id].id = last'.id
             /\ table'[last'.id].created_at = table[last'.id].created_at
       /\ \A i \in DOMAIN table : \A j \in DOMAIN table' :
             table'[j].created_at = table[i].created_at
                => j = i /\ table'[j].id = table[i].id]_vars

\* a partial update whose payload carries another id has succeeded on the
\* record with the highest id handed out, a record with a lower id having
\* been deleted
C11_Witness ==
    /\ last.op = "partial_update"
    /\ last.status = 200
    /\ "id" \in DOMAIN last.payload
    /\ last.payload.id # last.body.id
    /\ table[last.id].id = last.id
    /\ deleted # {}
    /\ \A j \in deleted : last.id > j

\* the rows the is_active parameter of a list request selects: absent, all;
\* true/1/yes in any letter case, the active ones; anything else, the
\* inactive ones
Selected(tbl, qp) ==
    IF qp.is_active = None THEN DOMAIN tbl
    ELSE IF Lower(qp.is_active)
               \in {<<"t", "r", "u", "e">>, <<"1">>, <<"y", "e", "s">>}
         THEN {i \in DOMAIN tbl : tbl[i].is_active}
         ELSE {i \in DOMAIN tbl : ~tbl[i].is_active}

\* C12 as stated: a list request without search answers 200 with exactly
\* the rows its is_active parameter selects, each once, the newest
\* (greatest created_at) first.
C12_ListNewestFirst ==
    [][(last'.op = "list" /\ last'.qp.search = None)
       => (/\ last'.status = 200
           /\ {last'.body[k].id : k \in 1..Len(last'.body)}
                 = Selected(table, last'.qp)
           /\ Len(last'.body) = Cardinality(Selected(table, last'.qp))
           /\ \A k \in 1..Len(last'.body) : \A l \in 1..Len(last'.body) :
                 k < l => last'.body[k].created_at
                             > last'.body[l].created_at)]_vars

\* q is a substring of s, letter case ignored
IContains(s, q) ==
    \E k \in 0..(Len(s) - Len(q)) :
        Lower(SubSeq(s, k + 1, k + Len(q))) = Lower(q)

\* C13 as stated: a list request with a non-empty search parameter answers
\* 200 with exactly the selected rows whose username or email contains it,
\* letter case ignored; the search for the email of the record the last
\* request created answers exactly one record.
C13_SearchFindsMatches ==
    [][(last'.op = "list" /\ Truthy(last'.qp.search))
       => (/\ last'.status = 200
           /\ {last'.body[k].id : k \in 1..Len(last'.body)}
                 = {i \in Selected(table, last'.qp) :
                       \/ IContains(table[i].username, last'.qp.search)
                       \/ IContains(table[i].email, last'.qp.search)}
           /\ (/\ last.op = "create"
               /\ last.status = HTTP_201_CREATED
               /\ last'.qp.search = last.body.email)
              => Len(last'.body) = 1)]_vars

\* full_name as stated: both names joined by a space when both are present
\* (not NULL, not blank), else the one that is present, else the username
FullNameAsStated(u) ==
    IF Truthy(u.first_name) /\ Truthy(u.last_name)
    THEN u.first_name \o <<" ">> \o u.last_name
    ELSE IF Truthy(u.first_name) THEN u.first_name
         ELSE IF Truthy(u.last_name) THEN u.last_name
              ELSE u.username

\* C14 as stated: the full_name of every stored record, and of every record
\* a retrieve, a partial update or active_users answers, is the stated
\* function of its first_name, last_name and username.
C14_FullName ==
    /\ \A i \in DOMAIN table :
          to_representation(table[i]).full_name = FullNameAsStated(table[i])
    /\ (last.op \in {"retrieve", "partial_update"} /\ last.status = 200)
          => last.body.full_name = FullNameAsStated(last.body)
    /\ last.op = "active_users"
          => \A k \in 1..Len(last.body) :
                last.body[k].full_name = FullNameAsStated(last.body[k])

\* the stored rows whose email is e
WithEmail(tbl, e) == {j \in DOMAIN tbl : tbl[j].email = e}

\* C15: when a create that has passed validation (its email, lowercased,
\* was held by no row then) comes to its write after another request has
\* stored that email, the write is refused: the create answers 500, not
\* 400, the table is unchanged and holds exactly one row with that email.
\* When neither its email nor its username is stored, it answers 201 and
\* its row is the one row with that email.
C15_ConcurrentCreateConflict ==
    [][\A p \in Procs :
          (/\ inflight[p] # Idle
           /\ inflight[p].op = "create"
           /\ inflight'[p] = Idle)
          => LET e == Lower(inflight[p].payload.email)
             IN  /\ WithEmail(table, e) # {}
                    => /\ last'.op = "create"
                       /\ last'.payload = inflight[p].payload
                       /\ last'.status = 500
                       /\ last'.errors = NoErrors
                       /\ table' = table
                       /\ nextId' = nextId + 1
                       /\ Cardinality(WithEmail(table', e)) = 1
                 /\ (/\ WithEmail(table, e) = {}
                     /\ \A j \in DOMAIN table :
                           table[j].username # inflight[p].payload.username)
                    => /\ last'.status = HTTP_201_CREATED
                       /\ WithEmail(table', e) = {last'.body.id}]_vars

\* two creates whose emails differ in letter case only were in progress
\* together: the second to write was answered 500 and the only stored row is
\* the one of the first, under another username
C15_Witness ==
    /\ last.op = "create"
    /\ last.status = 500
    /\ DOMAIN table = {1}
    /\ table[1].email = Lower(last.payload.email)
    /\ table[1].email # last.payload.email
    /\ table[1].username # last.payload.username
    /\ nextId = 3
    /\ \A p \in Procs : inflight[p] = Idle

\* C16 as stated: when an activate or deactivate that found its record
\* completes with 200, the record's username, email, first_name and
\* last_name are the ones stored just before its save, whatever was
\* committed since its read; and when a partial update without is_active
\* completes with 200, the record's is_active is the one stored just before
\* its save.
C16_NoLostUpdate ==
    [][\A p \in Procs :
          (/\ inflight[p] # Idle
           /\ inflight'[p] = Idle
           /\ last'.status = 200
           /\ inflight[p].id \in DOMAIN table)
          => /\ inflight[p].op \in {"activate", "deactivate"}
                => \A f \in {"username", "email", "first_name", "last_name"} :
                      table'[inflight[p].id][f] = table[inflight[p].id][f]
             /\ (/\ inflight[p].op = "partial_update"
                 /\ "is_active" \notin DOMAIN inflight[p].payload)
                => table'[inflight[p].id].is_active
                      = table[inflight[p].id].is_active]_vars

\* C17 as stated: whatever the query string, an item request on a stored id
\* finds the record (no 404, no server error; retrieve, delete, activate
\* and deactivate succeed), and an item request on an id that is not stored
\* answers 404.
C17_ItemByIdAlone ==
    [][last'.op \in ItemOps
       => /\ last'.id \in DOMAIN table
             => /\ last'.status \notin {404, 500}
                /\ last'.op \in {"retrieve", "destroy", "activate",
                                  "deactivate"}
                   => last'.status \in SuccessStatuses
          /\ last'.id \notin DOMAIN table => last'.status = 404]_vars

====
